---- MODULE Spec2Model ----
(***************************************************************************)
(* State-machine model of deepscan/starmask.py: the saturated-star mask    *)
(* builder.  starmask() locates saturated regions, dilates them, fits a    *)
(* circular aperture around each region in parallel chunks                 *)
(* (fit_apertures / _fit_apertures) and ORs the rasterised apertures with  *)
(* the dilated mask.                                                       *)
(*                                                                         *)
(* Pixels are pairs <<row, col>> with 0-based indices as in numpy.  A      *)
(* boolean array is the set of its True pixels.  The NaN-patched copy of   *)
(* the image made by fit_apertures is the pair (data, nanpix): nanpix is   *)
(* the set of pixels that hold NaN.  An average flux is a record           *)
(* [inf, twice]: inf says the value is +infinity, twice is two times the   *)
(* median (so that the median of an even sample stays an integer).         *)
(***************************************************************************)
EXTENDS Integers, Sequences, FiniteSets, TLC

\* ------------------------------------------------------------------ bounds
MaxDr == 2          \* ring steps dr range over 0..MaxDr
MaxRmax == 3        \* maximum radii Rmax range over 1..MaxRmax
MaxThreads == 3     \* worker counts range over 1..MaxThreads
MaxRings == MaxRmax + 1   \* cap of the ring counter i (only dr = 0 reaches it)

\* The process-wide default worker count imported from the package (its value
\* is set by the package at import time; 2 stands for it here).
NTHREADS == 2

VARIABLES
    data,           \* the image: [pixel -> value]
    saturate,       \* saturation level
    Icrit,          \* critical intensity
    convolve_size,  \* smoothing kernel size (0 disables)
    dilate_size,    \* dilation kernel size (0 disables)
    dr,             \* ring step
    Rmax,           \* maximum radius
    entry,          \* which public function the caller invoked
    callNthreads,   \* the worker count the caller passed to that function
    pc,             \* position of the call
    Nobjs,          \* number of saturated regions
    labeled,        \* label map: [pixel -> 0..Nobjs]
    convolved,      \* image used for the centroids: [pixel -> value]
    dilated,        \* dilated saturation mask (the mask passed to fit_apertures)
    Nthreads,       \* fit_apertures' Nthreads parameter
    mps,            \* centroids, one per label, in label order
    n,              \* chunk size
    chunks,         \* sequence of chunks (sequences of centroids)
    nanpix,         \* pixels of fit_apertures' copy of the image set to NaN
    tasks,          \* one record per chunk: the joblib task running _fit_apertures
    apertures_,     \* flattened aperture list returned by fit_apertures
    mask            \* the mask returned by starmask

inputs == <<data, saturate, Icrit, convolve_size, dilate_size, dr, Rmax,
            entry, callNthreads>>
vars == <<data, saturate, Icrit, convolve_size, dilate_size, dr, Rmax,
          entry, callNthreads, pc, Nobjs, labeled, convolved, dilated,
          Nthreads, mps, n, chunks, nanpix, tasks, apertures_, mask>>

\* ----------------------------------------------------------- array helpers
Pixels(H, W) == (0..(H-1)) \X (0..(W-1))

Height(d) == Cardinality({p[1] : p \in DOMAIN d})
Width(d) == Cardinality({p[2] : p \in DOMAIN d})

Max2(a, b) == IF a >= b THEN a ELSE b
Min2(a, b) == IF a <= b THEN a ELSE b
Abs(a) == IF a >= 0 THEN a ELSE -a

\* Position of a pixel in the flattened (row-major) array.
Raster(p, W) == p[1] * W + p[2]

\* ------------------------------------------------------- find_sat_regions
\* data > saturate
Saturated(d, sat) == {p \in DOMAIN d : d[p] > sat}

Adjacent(p, q) == Abs(p[1] - q[1]) + Abs(p[2] - q[2]) = 1

RECURSIVE Reach(_, _)
Reach(S, R) ==
    LET R2 == R \cup {q \in S : \E p \in R : Adjacent(p, q)}
    IN  IF R2 = R THEN R ELSE Reach(S, R2)

\* The connected regions of S (scipy.ndimage.label, default structure).
Regions(S) == {Reach(S, {p}) : p \in S}

FirstPixel(c, W) == CHOOSE p \in c : \A q \in c : Raster(p, W) <= Raster(q, W)

\* label(): regions are numbered in the order the scan meets them.
LabelOf(S, W, p) ==
    IF p \notin S THEN 0
    ELSE LET c == Reach(S, {p})
         IN  Cardinality({c2 \in Regions(S) :
                 Raster(FirstPixel(c2, W), W) <= Raster(FirstPixel(c, W), W)})

find_sat_regions(d, sat) ==
    LET S == Saturated(d, sat)
        W == Width(d)
    IN  [Nobjs |-> Cardinality(Regions(S)),
         labeled |-> [p \in DOMAIN d |-> LabelOf(S, W, p)]]

\* ------------------------------------------------- external collaborators
\* geometry.unit_tophat + convolution.convolve_large: sum over the square
\* window of the given side (the normalisation does not move the maximum).
Window(p, size) ==
    {<<p[1] + dy, p[2] + dx>> : dy \in (-(size \div 2))..(size \div 2),
                                dx \in (-(size \div 2))..(size \div 2)}

RECURSIVE SumOver(_, _)
SumOver(d, S) ==
    IF S = {} THEN 0
    ELSE LET p == CHOOSE q \in S : TRUE
         IN  d[p] + SumOver(d, S \ {p})

convolve_large(d, size) ==
    [p \in DOMAIN d |-> SumOver(d, Window(p, size) \cap DOMAIN d)]

\* dilate_large: convolve the 0/1 mask with the kernel, keep what is > tol.
dilate_large(d, blob, size) ==
    {p \in DOMAIN d : Window(p, size) \cap blob # {}}

\* geometry.ellipse
ellipse(x0, y0, a, b) == [x0 |-> x0, y0 |-> y0, a |-> a, b |-> b]

InEllipse(p, e) ==
    (p[2] - e.x0) * (p[2] - e.x0) + (p[1] - e.y0) * (p[1] - e.y0) <= e.a * e.a

\* Smask.source_mask: rasterise the ellipses on an all-False canvas.
source_mask(ellipses, d) ==
    {p \in DOMAIN d : \E k \in 1..Len(ellipses) : InEllipse(p, ellipses[k])}

\* scipy maximum_position: per label, the first pixel holding the maximum.
MaxPosition(conv, lab, l, W) ==
    LET reg == {p \in DOMAIN lab : lab[p] = l}
        best == {p \in reg : \A q \in reg : conv[p] >= conv[q]}
    IN  FirstPixel(best, W)

maximum_position(conv, lab, N, W) ==
    [l \in 1..N |-> MaxPosition(conv, lab, l, W)]

\* ---------------------------------------------------- measure_average_flux
Sq(a) == a * a

Dist2(p, x0, y0) == Sq(p[2] - x0) + Sq(p[1] - y0)

\* The pixels selected by cond: the annulus [r0, r0+step) around (x0, y0),
\* cropped to the bounding rectangle clipped to the image, NaN pixels removed.
Annulus(d, nans, x0, y0, r0, step) ==
    LET xmin == Max2(x0 - r0 - step, 0)
        xmax == Min2(x0 + r0 + step + 1, Width(d))
        ymin == Max2(y0 - r0 - step, 0)
        ymax == Min2(y0 + r0 + step + 1, Height(d))
    IN  {p \in DOMAIN d :
            /\ ymin <= p[1] /\ p[1] < ymax
            /\ xmin <= p[2] /\ p[2] < xmax
            /\ Dist2(p, x0, y0) >= Sq(r0)
            /\ Dist2(p, x0, y0) < Sq(r0 + step)
            /\ p \notin nans}

\* The k-th smallest value (k = 1..|S|) of the sample d[S].
KthSmallest(d, S, k) ==
    CHOOSE v \in {d[p] : p \in S} :
        /\ Cardinality({p \in S : d[p] <= v}) >= k
        /\ Cardinality({p \in S : d[p] < v}) < k

\* Two times np.median of the sample d[S], S not empty.
Median2(d, S) ==
    LET c == Cardinality(S)
    IN  IF c % 2 = 1 THEN 2 * KthSmallest(d, S, (c + 1) \div 2)
        ELSE KthSmallest(d, S, c \div 2) + KthSmallest(d, S, c \div 2 + 1)

measure_average_flux(d, nans, x0, y0, r0, step) ==
    LET cond == Annulus(d, nans, x0, y0, r0, step)
    IN  IF cond # {} THEN [inf |-> FALSE, twice |-> Median2(d, cond)]
        ELSE [inf |-> TRUE, twice |-> 0]

\* ---------------------------------------------------------- _fit_apertures
\* r = (i+1)*dr
RingRadius(i, step) == (i + 1) * step

\* (a comparison that also stops on equality)
BelowThreshold_OrEqual(sb, icrit) == ~sb.inf /\ sb.twice <= 2 * icrit

\* sb < Icrit
BelowThreshold(sb, icrit) == ~sb.inf /\ sb.twice < 2 * icrit

\* (a comparison that lets the radius pass Rmax before it stops)
ReachedMax_Strict(r, rmax) == r > rmax

\* r >= Rmax
ReachedMax(r, rmax) == r >= rmax

\* One pass of the while loop for centroid mp at ring index i: what the
\* iteration decides.
RingOutcome(d, nans, icrit, rmax, step, mp, i) ==
    LET r == RingRadius(i, step)
        sb == measure_average_flux(d, nans, mp[2], mp[1], i * step, step)
    IN  IF BelowThreshold(sb, icrit)
        THEN [kind |-> "fit", aperture |-> ellipse(mp[2], mp[1], r, r)]
        ELSE IF ReachedMax(r, rmax)
        THEN [kind |-> "max", aperture |-> ellipse(mp[2], mp[1], rmax, rmax)]
        ELSE [kind |-> "grow", aperture |-> ellipse(mp[2], mp[1], 0, 0)]

\* ----------------------------------------------------------- fit_apertures
\* n = int(len(mps)/Nthreads)
ChunkSize(len, nthreads) == len \div nthreads

\* range(start, stop, step) for step > 0
RECURSIVE Range(_, _, _)
Range(start, stop, step) ==
    IF start >= stop THEN <<>>
    ELSE <<start>> \o Range(start + step, stop, step)

\* s[lo:hi] for 0 <= lo <= hi
Slice(s, lo, hi) == SubSeq(s, lo + 1, Min2(hi, Len(s)))

\* (a chunking whose last chunk takes the remainder as well)
Chunks_LastAbsorbs(ps, size) ==
    LET starts == Range(0, size * (Len(ps) \div size), size)
    IN  [j \in 1..Len(starts) |->
            Slice(ps, starts[j],
                  IF j = Len(starts) THEN Len(ps) ELSE starts[j] + size)]

\* [mps[i:i + n] for i in range(0, len(mps), n)]
Chunks(ps, size) ==
    LET starts == Range(0, Len(ps), size)
    IN  [j \in 1..Len(starts) |-> Slice(ps, starts[j], starts[j] + size)]

\* (a flattening that takes the chunk results last first)
RECURSIVE Flatten_Reversed(_)
Flatten_Reversed(lists) ==
    IF lists = <<>> THEN <<>>
    ELSE Flatten_Reversed(Tail(lists)) \o Head(lists)

\* apertures_ = []; for aps in apertures: apertures_.extend(aps)
RECURSIVE Flatten(_)
Flatten(lists) ==
    IF lists = <<>> THEN <<>>
    ELSE Head(lists) \o Flatten(Tail(lists))

NewTask == [st |-> "queued", k |-> 1, i |-> 0, aps |-> <<>>, warned |-> <<>>]

Running == {t \in DOMAIN tasks : tasks[t].st = "running"}

\* joblib hands the tasks out in order, at most Nthreads at a time.
CanRun(t) ==
    \/ tasks[t].st = "running"
    \/ /\ tasks[t].st = "queued"
       /\ \A u \in 1..(t-1) : tasks[u].st # "queued"
       /\ Cardinality(Running) < Nthreads

\* ------------------------------------------------------------------ Init
Kernels == {0, 3}

\* A strip with graded fluxes handed to fit_apertures: every ring step and
\* maximum radius, regions of several pixels, smoothing from the given sizes.
InitStrip(smoothing) ==
    /\ data \in [Pixels(1, 4) -> 0..2]
    /\ Icrit \in {0, 1}
    /\ dr \in 0..MaxDr
    /\ Rmax \in 1..MaxRmax
    /\ convolve_size \in smoothing
    /\ dilate_size = 0
    /\ entry = "fit_apertures"
    /\ callNthreads \in 1..NTHREADS

\* No two saturated pixels touch: every region is a single pixel.
PointSources(d, sat) ==
    \A p, q \in Saturated(d, sat) : ~Adjacent(p, q)

\* A crowded field of up to five point sources on a dark background, handed
\* to one of the given entry points with one of the given worker counts.
InitField(entries, counts) ==
    /\ data \in [Pixels(3, 3) -> {0, 2}]
    /\ PointSources(data, 1)
    /\ Icrit \in {0, 1}
    /\ dr = 1
    /\ Rmax \in 1..2
    /\ convolve_size = 0
    /\ dilate_size \in Kernels
    /\ entry \in entries
    /\ callNthreads \in counts

Smooth(d, size) == IF size # 0 THEN convolve_large(d, size) ELSE d

Dilate(d, lab, size) ==
    LET blob == {p \in DOMAIN d : lab[p] # 0}
    IN  IF size # 0 THEN dilate_large(d, blob, size) ELSE blob

\* The state at the call of the entry point.
AtCall ==
    /\ n = 0
    /\ mps = <<>>
    /\ chunks = <<>>
    /\ nanpix = {}
    /\ tasks = <<>>
    /\ apertures_ = <<>>
    /\ mask = {}
    /\ IF entry = "starmask"
       THEN /\ pc = "starmask"
            /\ Nobjs = 0
            /\ labeled = [p \in DOMAIN data |-> 0]
            /\ convolved = data
            /\ dilated = {}
            /\ Nthreads = NTHREADS
       ELSE \* fit_apertures called directly, with the arguments starmask
            \* would compute but the caller's own worker count
            /\ pc = "fit_apertures"
            /\ Nobjs = find_sat_regions(data, saturate).Nobjs
            /\ labeled = find_sat_regions(data, saturate).labeled
            /\ convolved = Smooth(data, convolve_size)
            /\ dilated = Dilate(data, labeled, dilate_size)
            /\ Nthreads = callNthreads

Init ==
    /\ saturate = 1
    /\ InitStrip(Kernels) \/ InitField({"starmask", "fit_apertures"}, 1..MaxThreads)
    /\ AtCall

\* The calls followed to their end under fairness: unsmoothed strips handed
\* to fit_apertures and fields handed to starmask with the default count.
InitLive ==
    /\ saturate = 1
    /\ InitStrip({0}) \/ InitField({"starmask"}, {NTHREADS})
    /\ AtCall

\* --------------------------------------------------------------- actions
\* starmask, up to the call of fit_apertures (the Nthreads argument is not
\* the one handed on: the call passes Nthreads=NTHREADS).
Starmask_Begin ==
    /\ pc = "starmask"
    /\ Nobjs' = find_sat_regions(data, saturate).Nobjs
    /\ labeled' = find_sat_regions(data, saturate).labeled
    /\ convolved' = Smooth(data, convolve_size)
    /\ dilated' = Dilate(data, labeled', dilate_size)
    /\ Nthreads' = NTHREADS
    /\ pc' = "fit_apertures"
    /\ UNCHANGED <<inputs, mps, n, chunks, nanpix, tasks, apertures_, mask>>

Centroids == 
    LET m == maximum_position(convolved, labeled, Nobjs, Width(data))
    IN  [l \in 1..Nobjs |-> m[l]]

\* fit_apertures with n = 0: range(0, len(mps), 0) raises ValueError.
FitApertures_Raise ==
    /\ pc = "fit_apertures"
    /\ ChunkSize(Len(Centroids), Nthreads) = 0
    /\ mps' = Centroids
    /\ n' = 0
    /\ pc' = "error"
    /\ UNCHANGED <<inputs, Nobjs, labeled, convolved, dilated, Nthreads,
                   chunks, nanpix, tasks, apertures_, mask>>

\* fit_apertures up to the submission of the chunks to the pool.
FitApertures_Begin ==
    /\ pc = "fit_apertures"
    /\ ChunkSize(Len(Centroids), Nthreads) # 0
    /\ mps' = Centroids
    /\ n' = ChunkSize(Len(mps'), Nthreads)
    /\ chunks' = Chunks(mps', n')
    /\ nanpix' = dilated
    /\ tasks' = [t \in 1..Len(chunks') |-> NewTask]
    /\ pc' = "parallel"
    /\ UNCHANGED <<inputs, Nobjs, labeled, convolved, dilated, Nthreads,
                   apertures_, mask>>

\* One pass of the while loop of _fit_apertures in the task of chunk t.
GrowStep(t) ==
    /\ pc = "parallel"
    /\ CanRun(t)
    /\ tasks[t].i < MaxRings
    /\ LET T == tasks[t]
           mp == chunks[t][T.k]
           out == RingOutcome(data, nanpix, Icrit, Rmax, dr, mp, T.i)
           last == T.k = Len(chunks[t])
       IN  tasks' = [tasks EXCEPT ![t] =
               IF out.kind = "grow"
               THEN [T EXCEPT !.st = "running", !.i = T.i + 1]
               ELSE [st |-> IF last THEN "done" ELSE "running",
                     k |-> T.k + 1,
                     i |-> 0,
                     aps |-> Append(T.aps, out.aperture),
                     warned |-> IF out.kind = "max"
                                THEN Append(T.warned, mp) ELSE T.warned]]
    /\ UNCHANGED <<inputs, pc, Nobjs, labeled, convolved, dilated, Nthreads,
                   mps, n, chunks, nanpix, apertures_, mask>>

\* All tasks have returned: flatten the per-chunk lists and return.
FitApertures_End ==
    /\ pc = "parallel"
    /\ \A t \in DOMAIN tasks : tasks[t].st = "done"
    /\ apertures_' = Flatten([t \in DOMAIN tasks |-> tasks[t].aps])
    /\ pc' = IF entry = "starmask" THEN "source_mask" ELSE "done"
    /\ UNCHANGED <<inputs, Nobjs, labeled, convolved, dilated, Nthreads,
                   mps, n, chunks, nanpix, tasks, mask>>

\* starmask after fit_apertures: rasterise the apertures, add the dilation.
Starmask_End ==
    /\ pc = "source_mask"
    /\ mask' = source_mask(apertures_, data) \cup dilated
    /\ pc' = "done"
    /\ UNCHANGED <<inputs, Nobjs, labeled, convolved, dilated, Nthreads,
                   mps, n, chunks, nanpix, tasks, apertures_>>

Next ==
    \/ Starmask_Begin
    \/ FitApertures_Raise
    \/ FitApertures_Begin
    \/ \E t \in DOMAIN tasks : GrowStep(t)
    \/ FitApertures_End
    \/ Starmask_End

Spec == Init /\ [][Next]_vars

\* The pool's workers and the calling thread keep running.
FairSpec == InitLive /\ [][Next]_vars /\ WF_vars(Next)

\* ============================================================== properties
\* The call has got past the chunking of fit_apertures.
Dispatched == pc \in {"parallel", "source_mask", "done"}

\* fit_apertures has returned its list.
Returned == pc \in {"source_mask", "done"}

\* fit_apertures has computed the centroids.
Located == Dispatched \/ pc = "error"

ValidConfig == dr >= 1 /\ Rmax >= dr

\* The average flux of ring i around centroid mp, on the NaN-patched image.
RingAverage(mp, i) ==
    measure_average_flux(data, nanpix, mp[2], mp[1], i * dr, dr)

StrictlyBelow(sb, icrit) == ~sb.inf /\ sb.twice < 2 * icrit
AtOrBelow(sb, icrit) == ~sb.inf /\ sb.twice <= 2 * icrit

\* The apertures emitted so far, each with its task and its centroid.
Emitted ==
    UNION {{[t |-> t, mp |-> chunks[t][j], e |-> tasks[t].aps[j]] :
                j \in 1..Len(tasks[t].aps)} : t \in DOMAIN tasks}

\* Growth around mp has not been cut by the maximum radius before ring i.
NotCutBefore(i) == \A j \in 0..(i-1) : (j + 1) * dr < Rmax

\* --------------------------------------------------------------------- C1
\* C1: with no pixel above the saturation level (zero regions, no centroid)
\* the call never fails, fits zero apertures, and starmask returns the
\* dilated mask alone, which is all-False.
C1_NoSaturationCompletes ==
    (ValidConfig /\ Located /\ Nobjs = 0) =>
        /\ pc # "error"
        /\ Returned => apertures_ = <<>>
        /\ (entry = "starmask" /\ pc = "done") => (mask = dilated /\ mask = {})

\* --------------------------------------------------------------------- C2
\* C2: for dr >= 1 and Rmax >= dr every emitted aperture is a circle whose
\* radius is a positive multiple of dr within [dr, Rmax].
C2_RadiusMultipleWithinBounds ==
    ValidConfig =>
        \A x \in Emitted :
            /\ x.e.a = x.e.b
            /\ x.e.a % dr = 0
            /\ dr <= x.e.a
            /\ x.e.a <= Rmax

\* --------------------------------------------------------------------- C3
\* C3 as stated: growth stops at the first ring whose average is less than
\* OR EQUAL to Icrit (when the maximum radius has not cut growth before) and
\* emits the circle of radius (i+1)*dr centred on the centroid.
C3_StopsAtFirstRingAtOrBelow ==
    \A x \in Emitted : \A i \in 0..(MaxRings - 1) :
        ( /\ ValidConfig
          /\ AtOrBelow(RingAverage(x.mp, i), Icrit)
          /\ \A j \in 0..(i-1) : ~AtOrBelow(RingAverage(x.mp, j), Icrit)
          /\ NotCutBefore(i) )
        => x.e = ellipse(x.mp[2], x.mp[1], (i + 1) * dr, (i + 1) * dr)

\* C3 amended: growth stops at the first ring whose average is STRICTLY less
\* than Icrit (when the maximum radius has not cut growth before) and emits
\* the circle of radius (i+1)*dr with x0 = centroid column, y0 = centroid
\* row; a ring whose average equals Icrit does not stop growth.
C3_StopsAtFirstRingStrictlyBelow ==
    \A x \in Emitted : \A i \in 0..(MaxRings - 1) :
        ( /\ StrictlyBelow(RingAverage(x.mp, i), Icrit)
          /\ \A j \in 0..(i-1) : ~StrictlyBelow(RingAverage(x.mp, j), Icrit)
          /\ NotCutBefore(i) )
        => x.e = ellipse(x.mp[2], x.mp[1], (i + 1) * dr, (i + 1) * dr)

\* A ring averaged exactly Icrit, growth went on, and the next ring, strictly
\* below Icrit, gave the radius.
C3_Witness ==
    \E x \in Emitted : \E i \in 1..(MaxRings - 1) :
        /\ RingAverage(x.mp, i - 1) = [inf |-> FALSE, twice |-> 2 * Icrit]
        /\ StrictlyBelow(RingAverage(x.mp, i), Icrit)
        /\ \A j \in 0..(i-1) : ~StrictlyBelow(RingAverage(x.mp, j), Icrit)
        /\ NotCutBefore(i)
        /\ x.e.a = (i + 1) * dr

\* --------------------------------------------------------------------- C4
\* C4: for dr >= 1 and Rmax >= dr, when no ring with outer radius <= Rmax has
\* an average below the threshold, the emitted radius is exactly Rmax and the
\* warning for that centroid has been printed.
C4_ClampsAtRmaxWithWarning ==
    ValidConfig =>
        \A x \in Emitted :
            (\A i \in 0..(MaxRings - 1) :
                (i + 1) * dr <= Rmax => ~StrictlyBelow(RingAverage(x.mp, i), Icrit))
            => /\ x.e = ellipse(x.mp[2], x.mp[1], Rmax, Rmax)
               /\ \E w \in 1..Len(tasks[x.t].warned) : tasks[x.t].warned[w] = x.mp

\* --------------------------------------------------------------------- C5
Ceil(a, b) == (a + b - 1) \div b

\* C5 as stated: exactly Nthreads contiguous chunks, each of
\* floor(len/Nthreads) centroids, the last one taking the remainder as well.
C5_ExactlyWorkerCountChunks ==
    Dispatched =>
        LET len == Len(mps)
            q == len \div Nthreads
        IN  /\ Len(chunks) = Nthreads
            /\ \A j \in 1..Len(chunks) :
                  chunks[j] = SubSeq(mps, (j - 1) * q + 1,
                                     IF j = Nthreads THEN len ELSE j * q)

\* C5 amended: with n = floor(len/Nthreads) >= 1 the list is cut at the
\* offsets 0, n, 2n, ... into ceil(len/n) contiguous chunks of n centroids,
\* the last one holding only what is left; that is at least Nthreads chunks
\* and more than Nthreads exactly when Nthreads does not divide len.  With
\* len < Nthreads (n = 0) no chunk is made and the call fails.
C5_ChunksOfSizeN ==
    /\ Dispatched =>
        LET len == Len(mps)
        IN  /\ n = len \div Nthreads
            /\ n >= 1
            /\ Len(chunks) = Ceil(len, n)
            /\ \A j \in 1..Len(chunks) :
                  chunks[j] = SubSeq(mps, (j - 1) * n + 1, Min2(j * n, len))
            /\ Len(chunks) >= Nthreads
            /\ Len(chunks) > Nthreads <=> len % Nthreads # 0
    /\ Located => (Len(mps) < Nthreads <=> pc = "error")
    /\ pc = "error" => chunks = <<>>

\* Five centroids for two workers: chunks of 2, 2 and 1.
C5_Witness ==
    /\ Dispatched
    /\ Len(mps) = 5
    /\ Nthreads = 2
    /\ Len(chunks) = 3
    /\ Len(chunks[3]) = 1

\* --------------------------------------------------------------------- C6
\* _fit_apertures run on one centroid, as a function: the loop from ring i.
RECURSIVE GrowFrom(_, _)
GrowFrom(mp, i) ==
    LET out == RingOutcome(data, nanpix, Icrit, Rmax, dr, mp, i)
    IN  IF out.kind # "grow" \/ i >= MaxRings THEN out.aperture
        ELSE GrowFrom(mp, i + 1)

\* C6: with len(mps) >= Nthreads >= 1 the returned list has one aperture per
\* centroid and its k-th aperture is the one grown from the k-th centroid,
\* as if the whole list had been one chunk, whatever the order in which the
\* tasks ran and finished.
C6_OneAperturePerCentroidInOrder ==
    (Returned /\ Len(mps) >= Nthreads /\ Nthreads >= 1) =>
        /\ Len(apertures_) = Len(mps)
        /\ \A k \in 1..Len(mps) : apertures_[k] = GrowFrom(mps[k], 0)

\* Five centroids in three chunks handed to two workers, all returned.
C6_Witness ==
    /\ Returned
    /\ Len(mps) = 5
    /\ Nthreads = 2
    /\ Len(chunks) = 3
    /\ Len(apertures_) = 5

\* --------------------------------------------------------------------- C7
\* C7: with fewer centroids than workers (0 < len < Nthreads) the call does
\* not fail and returns one aperture per centroid in input order.
C7_FewerCentroidsThanWorkers ==
    (ValidConfig /\ Located /\ 0 < Len(mps) /\ Len(mps) < Nthreads) =>
        /\ pc # "error"
        /\ Returned =>
              /\ Len(apertures_) = Len(mps)
              /\ \A k \in 1..Len(mps) : apertures_[k] = GrowFrom(mps[k], 0)

\* --------------------------------------------------------------------- C8
\* Every task is within the ring budget: the ring it is about to measure has
\* an index below ceil(Rmax/dr).
RingBudget == \A t \in DOMAIN tasks : tasks[t].i < Ceil(Rmax, dr)

Terminated == pc \in {"done", "error"}

C9_InvalidConfigRejected ==
    (dr <= 0 \/ Rmax < dr) =>
        /\ ~Dispatched
        /\ \A t \in DOMAIN tasks : tasks[t] = NewTask

\* -------------------------------------------------------------------- C10
\* C10: the chunk size and the number of jobs in fit_apertures come from the
\* worker count the caller passed to starmask.
C10_CallerWorkerCountUsed ==
    (ValidConfig /\ entry = "starmask" /\ Located) =>
        /\ Nthreads = callNthreads
        /\ n = ChunkSize(Len(mps), callNthreads)

====
